---- MODULE Spec2Model ----
(***************************************************************************)
(* Model of src/cluster_professors.py: the resumable, rate-limited batch   *)
(* classification pipeline (ProfessorClusterer and main).                  *)
(*                                                                         *)
(* Professors are named by their position in the input mapping (1..n);     *)
(* StaleName is a professor name that is not a key of the input.  A thesis *)
(* list is abstracted to its length.  A model answer is a sequence of      *)
(* one-character tokens: "{" and "}" are braces, "a" is a JSON member      *)
(* "primary_research_areas": [ {top_level: ...} ], "b" is a member         *)
(* "primary_research_areas": [ {} ] (an area without top_level), "e" is a  *)
(* member "error": "...", and "x" is any text that is not JSON.            *)
(***************************************************************************)
EXTENDS Naturals, Integers, Sequences, FiniteSets, TLC

\* ---------------------------------------------------------------- bounds
MaxProfs == 2
MaxRuns == 2

\* ------------------------------------------------------ program constants
max_retries == 5
base_wait_time == 30
max_wait_time == 300
checkpoint_every == 3
error_recovery_wait == 30
requests_per_minute == 15
min_request_interval == 60 \div requests_per_minute

StaleName == 0

Min(a, b) == IF a < b THEN a ELSE b

\* ------------------------------------------------------------ result shapes
Result(ks, err, ar, rw) == [keys |-> ks, error |-> err, areas |-> ar, raw |-> rw]

\* process_professor, the empty-thesis short circuit
EmptyThesisResult ==
    Result({"professor_name", "primary_research_areas", "analysis_summary"},
           "", "empty", <<>>)

ApiFailedResult == Result({"error"}, "API call failed", "", <<>>)

InvalidJsonResult(response) ==
    Result({"error", "raw_response"}, "Invalid JSON response", "", response)

JsonParsingFailedResult(response) ==
    Result({"error", "raw_response"}, "JSON parsing failed", "", response)

\* the failure recorded by the per-professor exception handler
ExceptionResult == Result({"error"}, "exception", "", <<>>)

\* ------------------------------------------------------------ str methods
\* str.find(c): index (from 0) of the first occurrence, -1 when absent
Find(s, c) ==
    IF \E k \in 1..Len(s) : s[k] = c
    THEN (CHOOSE k \in 1..Len(s) : s[k] = c /\ \A j \in 1..(k-1) : s[j] # c) - 1
    ELSE -1

\* str.rfind(c): index (from 0) of the last occurrence, -1 when absent
RFind(s, c) ==
    IF \E k \in 1..Len(s) : s[k] = c
    THEN (CHOOSE k \in 1..Len(s) : s[k] = c /\ \A j \in (k+1)..Len(s) : s[j] # c) - 1
    ELSE -1

\* response[lo:hi] for 0 <= lo and 0 <= hi
Slice(s, lo, hi) ==
    IF hi <= lo THEN <<>> ELSE SubSeq(s, lo + 1, Min(hi, Len(s)))

\* ------------------------------------------------------------ json.loads
MemberTokens == {"a", "b", "e"}

\* json.loads succeeds on "{" members "}" and raises JSONDecodeError otherwise
JsonValid(s) ==
    /\ Len(s) >= 2
    /\ s[1] = "{"
    /\ s[Len(s)] = "}"
    /\ \A k \in 2..(Len(s) - 1) : s[k] \in MemberTokens

JsonKeys(s) ==
    (IF \E k \in 1..Len(s) : s[k] \in {"a", "b"} THEN {"primary_research_areas"} ELSE {})
    \cup (IF \E k \in 1..Len(s) : s[k] = "e" THEN {"error"} ELSE {})

\* the value of primary_research_areas: a later member overrides an earlier one
JsonAreas(s) ==
    IF \E k \in 1..Len(s) : s[k] \in {"a", "b"}
    THEN LET last == CHOOSE k \in 1..Len(s) :
                        /\ s[k] \in {"a", "b"}
                        /\ \A j \in (k+1)..Len(s) : s[j] \notin {"a", "b"}
         IN IF s[last] = "a" THEN "ok" ELSE "bad"
    ELSE ""

JsonLoads(s) ==
    Result(JsonKeys(s) \cup {"processing_timestamp"},
           IF "error" \in JsonKeys(s) THEN "model error" ELSE "",
           JsonAreas(s), <<>>)

\* ------------------------------------------------------------ process_professor
\* a thesis list of the input: 0 is the empty list, 1 a list of well-formed
\* records, 2 a list with a record that has no 'thesis' member
ThesisLists == {0, 1, 2}

\* the input obeys the schema of the input file
ValidInput(data) == \A p \in DOMAIN data : data[p] \in {0, 1}

\* a slip in process_professor: the short circuit is dropped
ThesisListEmpty_Never(thesis_list) == FALSE

\* line 162: if not thesis_list
ThesisListEmpty(thesis_list) == thesis_list = 0

\* line 127: thesis['thesis'] raises KeyError in create_clustering_prompt
PromptRaises(thesis_list) == thesis_list = 2

NoneResponse == [none |-> TRUE, text |-> <<>>]
TextResponse(t) == [none |-> FALSE, text |-> t]

\* "if response:" is false for None and for the empty string
Truthy(response) == ~response.none /\ Len(response.text) > 0

\* lines 174-189 of process_professor: the result built from the API answer
ParseResponse(response) ==
    IF Truthy(response)
    THEN LET json_start == Find(response.text, "{")
             json_end == RFind(response.text, "}") + 1
             json_str == Slice(response.text, json_start, json_end)
         IN IF json_start # -1 /\ json_end # -1
            THEN IF JsonValid(json_str)
                 THEN JsonLoads(json_str)
                 ELSE JsonParsingFailedResult(response.text)
            ELSE InvalidJsonResult(response.text)
    ELSE ApiFailedResult

\* ------------------------------------------------------------ wait_for_rate_limit
\* Time is counted in seconds.  A clock holds the time elapsed since an event
\* and stops at min_request_interval: the code only compares it with that.
Elapse(clock, seconds) == Min(clock + seconds, min_request_interval)

\* a slip in the limiter: it never sleeps
RateLimitWait_None(time_since_last) == 0

\* lines 63-69: the sleep of wait_for_rate_limit (0: none)
RateLimitWait(time_since_last) ==
    IF time_since_last < min_request_interval
    THEN min_request_interval - time_since_last
    ELSE 0

\* seconds one requests.post may take: a quick reply, or min_request_interval
\* and more (up to the timeout of line 90)
RequestDurations == {1, min_request_interval}

\* ------------------------------------------------------------ call_openrouter_api
\* a slip in the backoff: line 99 (the cap) is dropped
BackoffWait_NoCap(attempt) == base_wait_time * (2 ^ attempt)

\* lines 98-99: wait_time of a 429 response
BackoffWait(attempt) == Min(base_wait_time * (2 ^ attempt), max_wait_time)

\* line 106: wait_time after another status code
OtherStatusWait(attempt) == 10 * (attempt + 1)

\* line 116: wait_time after an exception
ExceptionWait(attempt) == 15 * (attempt + 1)


\* the texts the model may answer with (the content of an HTTP 200 body)
AnswerTexts ==
    { <<>>,
      <<"x">>,
      <<"{", "x">>,
      <<"{", "a", "}">>,
      <<"x", "{", "a", "}", "x">>,
      <<"{", "}">>,
      <<"{", "e", "}">>,
      <<"{", "b", "}">> }

\* ------------------------------------------------------------ summary
\* the counts of generate_cluster_summary: an entry with "error" is an error,
\* otherwise one with "primary_research_areas" is successfully processed
generate_cluster_summary(res) ==
    [total_professors |-> Cardinality(DOMAIN res),
     successfully_processed |->
         Cardinality({k \in DOMAIN res :
                         /\ "error" \notin res[k].keys
                         /\ "primary_research_areas" \in res[k].keys}),
     errors |-> Cardinality({k \in DOMAIN res : "error" \in res[k].keys})]

\* no summary file
NoSummary == [total_professors |-> 0, successfully_processed |-> 0, errors |-> 0]

\* ------------------------------------------------------------ checkpoint file
NoResults == [k \in {} |-> ApiFailedResult]

AbsentFile == [kind |-> "absent", processed_count |-> 0, results |-> NoResults]
\* a file that json.load rejects
GarbageFile == [kind |-> "garbage", processed_count |-> 0, results |-> NoResults]
\* the file between open(..., 'w') and the end of json.dump
TruncatedFile == [kind |-> "truncated", processed_count |-> 0, results |-> NoResults]
\* a JSON object without a 'results' member
NoResultsFile == [kind |-> "noresults", processed_count |-> 0, results |-> NoResults]

\* a saved checkpoint without entries
EmptyCheckpointFile == [kind |-> "ok", processed_count |-> 0, results |-> NoResults]
\* a checkpoint left by an earlier run over another input
StaleFile ==
    [kind |-> "ok", processed_count |-> 1,
     results |-> [k \in {StaleName} |-> ApiFailedResult]]

\* a checkpoint left by an earlier run that stopped after the first professor
PartialFile ==
    [kind |-> "ok", processed_count |-> 1,
     results |-> [k \in {1} |-> ApiFailedResult]]

\* the checkpoint files a first run may find
InitialFiles ==
    {AbsentFile, GarbageFile, NoResultsFile, EmptyCheckpointFile, StaleFile,
     PartialFile}

\* a slip in save_checkpoint: processed_count counts the successes only
MakeCheckpoint_CountSuccesses(res) ==
    [kind |-> "ok",
     processed_count |-> Cardinality({k \in DOMAIN res : "error" \notin res[k].keys}),
     results |-> res]

\* save_checkpoint: the Checkpoint that json.dump writes
MakeCheckpoint(res) ==
    [kind |-> "ok", processed_count |-> Cardinality(DOMAIN res), results |-> res]

\* os.path.exists(self.checkpoint_file)
Exists(f) == f.kind # "absent"

\* json.load(f) returns (does not raise)
Parses(f) == f.kind \in {"ok", "noresults"}

\* data.get('results', {})
LoadedResults(f) == IF f.kind = "ok" THEN f.results ELSE NoResults

\* a slip in the store: the mapping is replaced
Store_Only(res, p, r) == [k \in {p} |-> r]

\* self.results[professor_name] = result
Store(res, p, r) == [k \in DOMAIN res \cup {p} |-> IF k = p THEN r ELSE res[k]]

\* a slip in the loop: the membership check is dropped
SkipProfessor_Never(p, res) == FALSE

\* line 223: if professor_name in self.results: continue
SkipProfessor(p, res) == p \in DOMAIN res

\* line 206: if already_processed >= total_professors: return self.results
AllAlreadyProcessed(already, total) == already >= total

\* line 235: the branch that reads result['primary_research_areas']
ShowsAreas(r) == "error" \notin r.keys /\ "primary_research_areas" \in r.keys

\* line 236: area['top_level'] raises KeyError for an area without top_level
DisplayRaises(r) == ShowsAreas(r) /\ r.areas = "bad"

\* line 253: if len(self.results) % 3 == 0
CheckpointDue(res) == Cardinality(DOMAIN res) % checkpoint_every = 0

\* ------------------------------------------------------------ state
VARIABLES
    professors_data,   \* the input: professor i |-> length of its thesis list
    file,              \* clustering_checkpoint.json
    results,           \* self.results (RunState)
    pc,                \* position of the process
    i,                 \* the professor of the current loop iteration
    attempt,           \* attempt of call_openrouter_api
    sleepFor,          \* seconds of the time.sleep in progress (0: none)
    already_processed, \* len(self.results) after load_checkpoint
    results_file,      \* professor_clusters_<timestamp>.json was written
    summary_file,      \* clustering_summary_<timestamp>.json was written
    summary,           \* the counts written to the summary file
    run,               \* number of the process run
    fileAtStart,       \* history: the checkpoint file when the run started
    submitted,         \* history: professors passed to process_professor this run
    stored,            \* history: keys assigned in self.results this run
    httpCount,         \* history: HTTP requests made for the current professor
    got200,            \* history: some attempt for this professor returned 200
    lastWait,          \* history: <<attempt, wait>> of the latest 429 backoff
    prevWait,          \* history: wait of the 429 backoff before lastWait
    intAt,             \* history: phase in which this run was interrupted
    prevIntAt,         \* history: intAt of the previous run
    since_last,        \* clock: time.time() - self.last_request_time
    since_start,       \* clock: time since the latest requests.post started
    startGap,          \* history: since_start when the current request started
    returnGap,         \* history: since_last when wait_for_rate_limit was
                       \* called and when it returned
    answer,            \* history: the answer text of this professor's HTTP 200
    submitOrder        \* history: the professors of `submitted`, in order

vars == <<professors_data, file, results, pc, i, attempt, sleepFor,
          already_processed,
          results_file, summary_file, summary, run, fileAtStart, submitted,
          stored,
          httpCount, got200, lastWait, prevWait, intAt, prevIntAt,
          since_last, since_start, startGap, returnGap, answer, submitOrder>>

inputVars == <<professors_data>>
callVars == <<attempt, sleepFor, httpCount, got200, lastWait, prevWait>>
outVars == <<results_file, summary_file, summary>>
histVars == <<fileAtStart, intAt, prevIntAt>>
clockVars == <<since_last, since_start>>
gapVars == <<startGap, returnGap>>

total_professors == Len(professors_data)
Professors == 1..total_professors

NoWait == <<-1, 0>>
NoGap == min_request_interval
NoReturnGap == <<min_request_interval, min_request_interval>>

RunningPcs == {"start", "loop", "rate_wait", "http", "backoff", "stored",
               "ckpt_write", "except_sleep", "finalize", "summary", "cleanup"}
ProcessingPcs == {"loop", "rate_wait", "http", "backoff", "stored",
                  "ckpt_write", "except_sleep"}
EndedPcs == {"done", "fatal", "interrupted", "killed"}

Init ==
    /\ \E n \in 1..MaxProfs : professors_data \in [1..n -> ThesisLists]
    /\ file \in InitialFiles
    /\ results = NoResults
    /\ pc = "start"
    /\ i = 0
    /\ attempt = 0
    /\ sleepFor = 0
    /\ already_processed = 0
    /\ results_file = FALSE
    /\ summary_file = FALSE
    /\ summary = NoSummary
    /\ run = 1
    /\ fileAtStart = file
    /\ submitted = {}
    /\ stored = {}
    /\ httpCount = 0
    /\ got200 = FALSE
    /\ lastWait = NoWait
    /\ prevWait = 0
    /\ intAt = ""
    /\ prevIntAt = ""
    /\ since_last = min_request_interval
    /\ since_start = min_request_interval
    /\ startGap = NoGap
    /\ returnGap = NoReturnGap
    /\ answer = NoneResponse
    /\ submitOrder = <<>>

\* ------------------------------------------------------------ actions
\* a slip in the loop: the index is not advanced
NextIndex_Stuck(index) == index

\* line 221: the next item of enumerate(professors_data.items())
NextIndex(index) == index + 1

\* a slip in the loop: the first professor is left out
FirstProfessor_Second == 1 + 1
\* line 221: enumerate starts at the first item of the input
FirstProfessor == 1

\* cluster_all_professors lines 191-219, with load_checkpoint
LoadCheckpoint ==
    /\ pc = "start"
    /\ IF Exists(file) /\ ~Parses(file)
       THEN /\ pc' = "fatal"
            /\ UNCHANGED <<results, already_processed, i>>
       ELSE /\ results' = LoadedResults(file)
            /\ already_processed' = Cardinality(DOMAIN results')
            /\ IF AllAlreadyProcessed(already_processed', total_professors)
               THEN pc' = "finalize" /\ i' = i
               ELSE pc' = "loop" /\ i' = FirstProfessor
    /\ UNCHANGED <<inputVars, file, callVars, outVars, run, clockVars, gapVars, answer, submitOrder, histVars,
                   submitted, stored>>

\* line 221-224: the loop ends, or the professor is skipped
LoopEnd ==
    /\ pc = "loop"
    /\ i > total_professors
    /\ pc' = "finalize"
    /\ UNCHANGED <<inputVars, file, results, i, already_processed, callVars,
                   outVars, run, clockVars, gapVars, answer, submitOrder, histVars, submitted, stored>>

LoopSkip ==
    /\ pc = "loop"
    /\ i <= total_professors
    /\ SkipProfessor(i, results)
    /\ i' = NextIndex(i)
    /\ UNCHANGED <<inputVars, file, results, pc, already_processed, callVars,
                   outVars, run, clockVars, gapVars, answer, submitOrder, histVars, submitted, stored>>

\* line 231: process_professor(professor_name, thesis_list) is called
Submit(p) ==
    /\ submitted' = submitted \cup {p}
    /\ submitOrder' = Append(submitOrder, p)

\* `seconds` of wall-clock time pass
TimePasses(seconds) ==
    /\ since_last' = Elapse(since_last, seconds)
    /\ since_start' = Elapse(since_start, seconds)

\* process_professor lines 162-167 and line 232: no thesis, no API call
ProcessEmpty ==
    /\ pc = "loop"
    /\ i <= total_professors
    /\ ~SkipProfessor(i, results)
    /\ ThesisListEmpty(professors_data[i])
    /\ Submit(i)
    /\ results' = Store(results, i, EmptyThesisResult)
    /\ stored' = stored \cup {i}
    /\ pc' = "stored"
    /\ UNCHANGED <<inputVars, file, i, already_processed, callVars, outVars,
                   run, clockVars, gapVars, answer, histVars>>

\* process_professor line 169: create_clustering_prompt raises KeyError
\* (line 127), caught by the handler of lines 256-261
ProcessInvalid ==
    /\ pc = "loop"
    /\ i <= total_professors
    /\ ~SkipProfessor(i, results)
    /\ ~ThesisListEmpty(professors_data[i])
    /\ PromptRaises(professors_data[i])
    /\ Submit(i)
    /\ results' = Store(results, i, ExceptionResult)
    /\ stored' = stored \cup {i}
    /\ pc' = "except_sleep"
    /\ sleepFor' = error_recovery_wait
    /\ UNCHANGED <<inputVars, file, i, attempt, already_processed, httpCount,
                   got200, lastWait, prevWait, outVars, run, clockVars,
                   gapVars, answer, histVars>>

\* process_professor lines 169-172 entering call_openrouter_api line 74:
\* wait_for_rate_limit lines 62-69 computes its sleep
ProcessCall ==
    /\ pc = "loop"
    /\ i <= total_professors
    /\ ~SkipProfessor(i, results)
    /\ ~ThesisListEmpty(professors_data[i])
    /\ ~PromptRaises(professors_data[i])
    /\ Submit(i)
    /\ pc' = "rate_wait"
    /\ attempt' = 0
    /\ sleepFor' = RateLimitWait(since_last)
    /\ httpCount' = 0
    /\ got200' = FALSE
    /\ lastWait' = NoWait
    /\ prevWait' = 0
    /\ UNCHANGED <<inputVars, file, results, i, already_processed, outVars,
                   run, clockVars, gapVars, answer, histVars, stored>>

\* the sleep of wait_for_rate_limit ends (it lasts at least sleepFor), line 71
\* sets last_request_time, and requests.post is issued (lines 78-91)
SendRequest ==
    /\ pc = "rate_wait"
    /\ pc' = "http"
    /\ httpCount' = httpCount + 1
    /\ returnGap' = <<since_last, Elapse(since_last, sleepFor)>>
    /\ since_last' = 0
    /\ startGap' = Elapse(since_start, sleepFor)
    /\ since_start' = 0
    /\ sleepFor' = 0
    /\ UNCHANGED <<inputVars, file, results, i, attempt, already_processed,
                   got200, lastWait, prevWait, outVars, run, answer, histVars,
                   submitted, submitOrder, stored>>

\* call_openrouter_api returned `response`: process_professor lines 174-189
\* build the result and line 232 stores it
Return(response) ==
    /\ results' = Store(results, i, ParseResponse(response))
    /\ stored' = stored \cup {i}
    /\ pc' = "stored"

\* lines 93-95: HTTP 200 whose body holds the answer text
Http200 ==
    /\ pc = "http"
    /\ \E t \in AnswerTexts :
           /\ Return(TextResponse(t))
           /\ answer' = TextResponse(t)
    /\ \E d \in RequestDurations : TimePasses(d)
    /\ got200' = TRUE
    /\ UNCHANGED <<inputVars, file, i, attempt, sleepFor, already_processed,
                   httpCount, lastWait, prevWait, outVars, run, gapVars,
                   histVars, submitted, submitOrder>>

\* lines 96-102: HTTP 429, exponential backoff
Http429 ==
    /\ pc = "http"
    /\ \E d \in RequestDurations : TimePasses(d)
    /\ prevWait' = lastWait[2]
    /\ lastWait' = <<attempt, BackoffWait(attempt)>>
    /\ sleepFor' = BackoffWait(attempt)
    /\ pc' = "backoff"
    /\ UNCHANGED <<inputVars, file, results, i, attempt, already_processed,
                   httpCount, got200, outVars, run, gapVars, answer, histVars,
                   submitted, submitOrder, stored>>

\* lines 103-121: the attempt failed; retry after a sleep unless it was the last
FailedAttempt(wait_time) ==
    /\ \E d \in RequestDurations : TimePasses(d)
    /\ IF attempt < max_retries - 1
       THEN /\ pc' = "backoff"
            /\ sleepFor' = wait_time
            /\ UNCHANGED <<results, stored>>
       ELSE /\ Return(NoneResponse)
            /\ sleepFor' = sleepFor

\* lines 103-111: another status code
HttpOtherStatus ==
    /\ pc = "http"
    /\ FailedAttempt(OtherStatusWait(attempt))
    /\ UNCHANGED <<inputVars, file, i, attempt, already_processed, httpCount,
                   got200, lastWait, prevWait, outVars, run, gapVars, answer,
                   histVars, submitted, submitOrder>>

\* lines 113-121: requests.post raised (timeout, connection failure)
HttpException ==
    /\ pc = "http"
    /\ FailedAttempt(ExceptionWait(attempt))
    /\ UNCHANGED <<inputVars, file, i, attempt, already_processed, httpCount,
                   got200, lastWait, prevWait, outVars, run, gapVars, answer,
                   histVars, submitted, submitOrder>>

\* lines 93-95 and 113-121: HTTP 200 whose body is not the expected JSON, so
\* response.json() or result['choices'][0]['message']['content'] raises
Http200BadBody ==
    /\ pc = "http"
    /\ FailedAttempt(ExceptionWait(attempt))
    /\ got200' = TRUE
    /\ UNCHANGED <<inputVars, file, i, attempt, already_processed, httpCount,
                   lastWait, prevWait, outVars, run, gapVars, answer, histVars,
                   submitted, submitOrder>>

\* the sleep ends: the next attempt of line 78 (no wait_for_rate_limit), or
\* lines 123-124
BackoffDone ==
    /\ pc = "backoff"
    /\ since_last' = Elapse(since_last, sleepFor)
    /\ IF attempt + 1 < max_retries
       THEN /\ attempt' = attempt + 1
            /\ httpCount' = httpCount + 1
            /\ pc' = "http"
            /\ startGap' = Elapse(since_start, sleepFor)
            /\ since_start' = 0
            /\ UNCHANGED <<results, stored>>
       ELSE /\ Return(NoneResponse)
            /\ since_start' = Elapse(since_start, sleepFor)
            /\ UNCHANGED <<attempt, httpCount, startGap>>
    /\ sleepFor' = 0
    /\ UNCHANGED <<inputVars, file, i, already_processed, got200, lastWait,
                   prevWait, outVars, run, returnGap, answer, histVars,
                   submitted, submitOrder>>

\* lines 234-254 after the store of line 232: result display, ETA, and either
\* the exception handler of lines 256-258 or the periodic save_checkpoint
\* (which first opens the file with 'w', truncating it)
AfterStore ==
    /\ pc = "stored"
    /\ IF DisplayRaises(results[i])
       THEN /\ results' = Store(results, i, ExceptionResult)
            /\ stored' = stored \cup {i}
            /\ pc' = "except_sleep"
            /\ sleepFor' = error_recovery_wait
            /\ UNCHANGED <<file, i>>
       ELSE /\ UNCHANGED <<results, stored>>
            /\ sleepFor' = 0
            /\ IF CheckpointDue(results)
               THEN /\ file' = TruncatedFile
                    /\ pc' = "ckpt_write"
                    /\ i' = i
               ELSE /\ pc' = "loop"
                    /\ i' = NextIndex(i)
                    /\ file' = file
    /\ attempt' = 0
    /\ httpCount' = 0
    /\ got200' = FALSE
    /\ lastWait' = NoWait
    /\ prevWait' = 0
    /\ startGap' = NoGap
    /\ returnGap' = NoReturnGap
    /\ answer' = NoneResponse
    /\ UNCHANGED <<inputVars, already_processed, outVars, run, clockVars,
                   histVars, submitted, submitOrder>>

\* save_checkpoint line 59: json.dump completes and the file is closed
CheckpointDump ==
    /\ pc = "ckpt_write"
    /\ file' = MakeCheckpoint(results)
    /\ pc' = "loop"
    /\ i' = NextIndex(i)
    /\ UNCHANGED <<inputVars, results, already_processed, callVars, outVars,
                   run, clockVars, gapVars, answer, histVars, submitted,
                   submitOrder, stored>>

\* lines 259-261: time.sleep(30) of the exception handler ends
ExceptSleepDone ==
    /\ pc = "except_sleep"
    /\ pc' = "loop"
    /\ i' = NextIndex(i)
    /\ TimePasses(sleepFor)
    /\ sleepFor' = 0
    /\ UNCHANGED <<inputVars, file, results, attempt, already_processed,
                   httpCount, got200, lastWait, prevWait, outVars, run,
                   gapVars, answer, histVars, submitted, submitOrder, stored>>

\* a slip in main: the summary is skipped
AfterResults_Skip == "cleanup"

\* main lines 312-314: after the results file comes the summary
AfterResults == "summary"

\* main lines 309-312: save_results(results, final_file); open() may raise
WriteResults ==
    /\ pc = "finalize"
    /\ \/ results_file' = TRUE /\ pc' = AfterResults
       \/ results_file' = results_file /\ pc' = "fatal"
    /\ UNCHANGED <<inputVars, file, results, i, already_processed, callVars,
                   summary_file, summary, run, clockVars, gapVars, answer,
                   submitOrder, histVars, submitted, stored>>

\* main lines 314-323: generate_cluster_summary and save_results(summary, ...)
WriteSummary ==
    /\ pc = "summary"
    /\ \/ /\ summary_file' = TRUE
          /\ summary' = generate_cluster_summary(results)
          /\ pc' = "cleanup"
       \/ /\ summary_file' = summary_file
          /\ summary' = summary
          /\ pc' = "fatal"
    /\ UNCHANGED <<inputVars, file, results, i, already_processed, callVars,
                   results_file, run, clockVars, gapVars, answer, submitOrder, histVars, submitted, stored>>

\* main lines 325-328: remove the checkpoint file
CleanUp ==
    /\ pc = "cleanup"
    /\ file' = IF Exists(file) THEN AbsentFile ELSE file
    /\ pc' = "done"
    /\ UNCHANGED <<inputVars, results, i, already_processed, callVars, outVars,
                   run, clockVars, gapVars, answer, submitOrder, histVars, submitted, stored>>

\* the part of the run in which a signal arrives
Phase(at) ==
    IF at = "start" THEN "start"
    ELSE IF at \in ProcessingPcs THEN "processing"
    ELSE "finalizing"

\* the frames of cluster_all_professors and call_openrouter_api are never
\* resumed: their locals, the limiter's timestamp and the per-professor
\* history are dropped
DropLocals ==
    /\ i' = 0
    /\ attempt' = 0
    /\ sleepFor' = 0
    /\ already_processed' = 0
    /\ httpCount' = 0
    /\ got200' = FALSE
    /\ lastWait' = NoWait
    /\ prevWait' = 0
    /\ since_last' = min_request_interval
    /\ since_start' = min_request_interval
    /\ startGap' = NoGap
    /\ returnGap' = NoReturnGap
    /\ answer' = NoneResponse

\* SIGINT: save_and_exit lines 37-39 enter save_checkpoint, which opens the
\* file with 'w'
Interrupt ==
    /\ pc \in RunningPcs
    /\ intAt' = Phase(pc)
    /\ file' = TruncatedFile
    /\ pc' = "sig_write"
    /\ DropLocals
    /\ UNCHANGED <<inputVars, results, outVars, run, fileAtStart, prevIntAt,
                   submitted, submitOrder, stored>>

\* save_checkpoint line 59 inside the handler, then sys.exit(0) (lines 40-41)
InterruptDump ==
    /\ pc = "sig_write"
    /\ file' = MakeCheckpoint(results)
    /\ pc' = "interrupted"
    /\ UNCHANGED <<inputVars, results, i, already_processed, callVars, outVars,
                   run, clockVars, gapVars, answer, histVars, submitted,
                   submitOrder, stored>>

\* the process is killed (SIGKILL, power loss): nothing more is executed and
\* its memory is gone
Kill ==
    /\ pc \in RunningPcs \cup {"sig_write"}
    /\ pc' = "killed"
    /\ DropLocals
    /\ results' = NoResults
    /\ results_file' = FALSE
    /\ summary_file' = FALSE
    /\ summary' = NoSummary
    /\ submitted' = {}
    /\ submitOrder' = <<>>
    /\ stored' = {}
    /\ intAt' = ""
    /\ UNCHANGED <<inputVars, file, run, fileAtStart, prevIntAt>>

\* the operator starts the program again on the same input: __init__
Restart ==
    /\ pc \in EndedPcs
    /\ run < MaxRuns
    /\ run' = run + 1
    /\ pc' = "start"
    /\ results' = NoResults
    /\ i' = 0
    /\ attempt' = 0
    /\ sleepFor' = 0
    /\ already_processed' = 0
    /\ results_file' = FALSE
    /\ summary_file' = FALSE
    /\ summary' = NoSummary
    /\ fileAtStart' = file
    /\ submitted' = {}
    /\ stored' = {}
    /\ httpCount' = 0
    /\ got200' = FALSE
    /\ lastWait' = NoWait
    /\ prevWait' = 0
    /\ prevIntAt' = IF pc = "interrupted" THEN intAt ELSE ""
    /\ intAt' = ""
    /\ since_last' = min_request_interval
    /\ since_start' = min_request_interval
    /\ startGap' = NoGap
    /\ returnGap' = NoReturnGap
    /\ answer' = NoneResponse
    /\ submitOrder' = <<>>
    /\ UNCHANGED <<inputVars, file>>

Next ==
    \/ LoadCheckpoint
    \/ LoopEnd
    \/ LoopSkip
    \/ ProcessEmpty
    \/ ProcessInvalid
    \/ ProcessCall
    \/ SendRequest
    \/ Http200
    \/ Http429
    \/ HttpOtherStatus
    \/ HttpException
    \/ Http200BadBody
    \/ BackoffDone
    \/ AfterStore
    \/ CheckpointDump
    \/ ExceptSleepDone
    \/ WriteResults
    \/ WriteSummary
    \/ CleanUp
    \/ Interrupt
    \/ InterruptDump
    \/ Kill
    \/ Restart

Spec == Init /\ [][Next]_vars

\* one run without signals: every HTTP call returns or times out, every sleep
\* ends, and the single thread of control keeps running
NextLive ==
    \/ LoadCheckpoint
    \/ LoopEnd
    \/ LoopSkip
    \/ ProcessEmpty
    \/ ProcessInvalid
    \/ ProcessCall
    \/ SendRequest
    \/ Http200
    \/ Http429
    \/ HttpOtherStatus
    \/ HttpException
    \/ Http200BadBody
    \/ BackoffDone
    \/ AfterStore
    \/ CheckpointDump
    \/ ExceptSleepDone
    \/ WriteResults
    \/ WriteSummary
    \/ CleanUp

SpecLive == Init /\ [][NextLive]_vars /\ WF_vars(NextLive)

TypeOK ==
    /\ pc \in RunningPcs \cup EndedPcs \cup {"sig_write"}
    /\ summary.total_professors \in 0..(MaxProfs + 1)
    /\ summary.successfully_processed \in 0..summary.total_professors
    /\ summary.errors \in 0..summary.total_professors
    /\ run \in 1..MaxRuns
    /\ attempt \in 0..(max_retries - 1)
    /\ file.kind \in {"absent", "garbage", "truncated", "noresults", "ok"}


\* ------------------------------------------------------------ properties
\* the run has executed load_checkpoint
Loaded ==
    /\ pc \notin {"start", "killed"}
    /\ ~(pc \in {"sig_write", "interrupted"} /\ intAt = "start")

\* cluster_all_professors has returned to main
Returned == pc \in {"finalize", "summary", "cleanup", "done"}

\* C1 (idempotent resume): in a run that starts on a saved checkpoint, no
\* professor with an entry in that checkpoint is passed to process_professor,
\* and once the checkpoint is loaded the keys of RunState are the keys of the
\* checkpoint (stored by the earlier run) together with the keys this run
\* has stored.
C1_IdempotentResume ==
    fileAtStart.kind = "ok" =>
        /\ submitted \cap DOMAIN fileAtStart.results = {}
        /\ Loaded => DOMAIN results = DOMAIN fileAtStart.results \cup stored

\* run 2 finished after run 1 was interrupted while processing, with
\* professors carried over and professors classified by run 2
C1_Witness ==
    /\ run = 2
    /\ prevIntAt = "processing"
    /\ pc = "done"
    /\ fileAtStart.kind = "ok"
    /\ DOMAIN fileAtStart.results \cap Professors # {}
    /\ stored # {}

\* C2 (completeness): when a run is DONE, RunState has an entry for every
\* professor of the input, whatever checkpoint was loaded at the start.
C2_Completeness ==
    pc = "done" => Professors \subseteq DOMAIN results

SuccessShaped(r) == "primary_research_areas" \in r.keys /\ "error" \notin r.keys
FailureShaped(r) == "error" \in r.keys /\ "primary_research_areas" \notin r.keys

\* C3 (result shapes): every entry of RunState is success-shaped or
\* failure-shaped, exactly one of the two.
C3_ExactlyOneShape ==
    \A k \in DOMAIN results :
        /\ SuccessShaped(results[k]) \/ FailureShaped(results[k])
        /\ ~(SuccessShaped(results[k]) /\ FailureShaped(results[k]))

\* C4 (monotonic RunState): no step of a run removes an entry of RunState
\* or replaces it by another value.
C4_SetOnce ==
    [][pc' \notin {"start", "killed"} =>
         \A k \in DOMAIN results :
             k \in DOMAIN results' /\ results'[k] = results[k]]_vars

\* C5 (lossless interrupt): an interrupt during PROCESSING ends the run with
\* a checkpoint that holds the whole RunState, no results or summary file and
\* the checkpoint kept; the next run, once its loop has returned, has
\* classified exactly the professors of the input without an entry in it.
C5_LosslessInterrupt ==
    /\ (pc = "interrupted" /\ intAt = "processing") =>
           /\ file.kind = "ok"
           /\ file.results = results
           /\ ~results_file
           /\ ~summary_file
    /\ (prevIntAt = "processing" /\ Returned) =>
           submitted = Professors \ DOMAIN fileAtStart.results

\* C6 (atomic save): the checkpoint file is never observable empty or
\* truncated.
C6_AtomicSave ==
    file.kind # "truncated"

\* C7 (checkpoint consistency): every saved Checkpoint has processed_count
\* equal to the number of keys of its results.
C7_CheckpointConsistency ==
    file.kind = "ok" => file.processed_count = Cardinality(DOMAIN file.results)

\* the periodic save of an uninterrupted first run wrote three entries, one
\* of them a failure
C7_Witness ==
    /\ run = 1
    /\ intAt = ""
    /\ file.kind = "ok"
    /\ Cardinality(DOMAIN file.results) = checkpoint_every
    /\ \E k \in DOMAIN file.results \cap Professors : "error" \in file.results[k].keys

\* C8 (corrupt checkpoint is fatal): a run that starts on a checkpoint file
\* that is not a well-formed Checkpoint ends with a fatal error, submits no
\* professor and leaves the file as it was.
C8_CorruptIsFatal ==
    (/\ fileAtStart.kind \in {"garbage", "truncated", "noresults"}
     /\ pc \notin {"start", "sig_write", "interrupted", "killed"}) =>
        /\ pc = "fatal"
        /\ submitted = {}
        /\ file = fileAtStart

\* C9 (bounded retry): at most max_retries requests per professor, and the
\* generic "API call failed" result is stored only after max_retries attempts
\* none of which returned HTTP 200.
C9_BoundedRetry ==
    /\ httpCount <= max_retries
    /\ (pc = "stored" /\ professors_data[i] > 0 /\ results[i] = ApiFailedResult) =>
           (httpCount = max_retries /\ ~got200)

\* C10 (backoff bound): the wait of a 429 response at attempt a is
\* min(300, 30 * 2^a), never above 300 and never below the wait of the 429
\* response before it in the same retry cycle.
C10_BackoffBound ==
    lastWait # NoWait =>
        /\ lastWait[1] \in 0..(max_retries - 1)
        /\ lastWait[2] = Min(300, 30 * (2 ^ lastWait[1]))
        /\ lastWait[2] <= 300
        /\ prevWait <= lastWait[2]

\* the fifth consecutive 429 response: the cap applies after a wait of 240
C10_Witness ==
    /\ pc = "backoff"
    /\ lastWait = <<4, 300>>
    /\ prevWait = 240


\* C11 (request spacing): every HTTP request starts at least
\* min_request_interval seconds after the start of the request before it.
C11_RequestSpacing ==
    pc = "http" => startGap >= min_request_interval

\* C12 (rate pacing): wait_for_rate_limit returns at least
\* min_request_interval seconds after its previous return, and on return
\* last_request_time is the current time.
C12_RatePacing ==
    (pc = "http" /\ attempt = 0) =>
        /\ returnGap[2] >= 60 \div 15
        /\ since_last = 0

\* the limiter was called one second after its previous return and returned
\* four seconds after it
C12_Witness ==
    /\ pc = "http"
    /\ attempt = 0
    /\ stored # {}
    /\ returnGap = <<1, 4>>

\* C13 (empty-thesis short circuit): the step that processes a professor
\* without theses stores a success-shaped result with no research areas and
\* the fixed summary, makes no HTTP request, does not enter the rate limiter
\* and leaves last_request_time alone.
C13_EmptyShortCircuit ==
    [][(/\ pc = "loop"
        /\ i \in Professors
        /\ i \notin DOMAIN results
        /\ professors_data[i] = 0
        /\ pc' \notin {"sig_write", "killed"}) =>
           /\ pc' = "stored"
           /\ SuccessShaped(results'[i])
           /\ results'[i].areas = "empty"
           /\ "analysis_summary" \in results'[i].keys
           /\ httpCount' = 0
           /\ UNCHANGED <<since_last, since_start, returnGap>>]_vars

\* a professor without theses is stored one second after the request of the
\* professor before
C13_Witness ==
    /\ pc = "stored"
    /\ professors_data[i] = 0
    /\ results[i] = EmptyThesisResult
    /\ since_last = 1

\* the text holds a parsable JSON object between its first "{" and last "}"
Extractable(text) ==
    /\ Find(text, "{") # -1
    /\ JsonValid(Slice(text, Find(text, "{"), RFind(text, "}") + 1))

\* C14 (malformed JSON): an HTTP 200 answer without a parsable JSON object
\* is stored as a failure-shaped result whose raw_response is the whole
\* answer text, after the one request that returned it.
C14_MalformedJson ==
    (pc = "stored" /\ ~answer.none /\ ~Extractable(answer.text)) =>
        /\ FailureShaped(results[i])
        /\ "raw_response" \in results[i].keys
        /\ results[i].raw = answer.text
        /\ httpCount = attempt + 1

\* C15 (failure isolation): the exception handler stores {error: ...} for the
\* professor of the iteration and sleeps 30 seconds, the loop then goes on
\* to the next professor, and no step changes the entry of a professor other
\* than the one being processed.
C15_FailureIsolation ==
    [][/\ (pc # "except_sleep" /\ pc' = "except_sleep") =>
              /\ i' = i
              /\ results'[i].keys = {"error"}
              /\ sleepFor' = 30
       /\ (pc = "except_sleep" /\ pc' \notin {"sig_write", "killed"}) =>
              /\ pc' = "loop"
              /\ i' = i + 1
       /\ pc' \notin {"start", "killed"} =>
              \A k \in DOMAIN results :
                  k # i => (k \in DOMAIN results' /\ results'[k] = results[k])]_vars

\* the handler recorded the failure of the second professor next to the
\* first professor's entry
C15_Witness ==
    /\ pc = "except_sleep"
    /\ i = 2
    /\ 1 \in DOMAIN results
    /\ results[2] = ExceptionResult

\* C16 (input validation): for an input that violates the schema no
\* professor is passed to process_professor and RunState gets no entry.
C16_InputValidated ==
    ~ValidInput(professors_data) => (submitted = {} /\ stored = {})

C18_CheckpointCadence ==
    (/\ ValidInput(professors_data)
     /\ pc = "loop"
     /\ i > 1
     /\ (i - 1) \in stored
     /\ Cardinality(DOMAIN results) % 3 = 0) =>
        /\ file.kind = "ok"
        /\ (i - 1) \in DOMAIN file.results
        /\ file.results[i - 1] = results[i - 1]

\* C19 (finalization order): the checkpoint file is removed only when the
\* results file and the summary file are written, and a failed write leaves
\* the checkpoint file as it was.
C19_FinalizationOrder ==
    [][/\ (Exists(file) /\ ~Exists(file')) => (results_file /\ summary_file)
       /\ (pc \in {"finalize", "summary"} /\ pc' = "fatal") => file' = file]_vars

\* the summary could not be written and the saved checkpoint is still there
C19_Witness ==
    /\ pc = "fatal"
    /\ results_file
    /\ ~summary_file
    /\ file.kind = "ok"
    /\ DOMAIN file.results \cap Professors # {}

\* the input order restricted to the professors absent from the checkpoint
\* that the run loaded
RestrictedOrder ==
    LET loaded == IF fileAtStart.kind = "ok" THEN DOMAIN fileAtStart.results ELSE {}
        absent(p) == p \notin loaded
    IN SelectSeq([p \in Professors |-> p], absent)

IsPrefix(s, t) == Len(s) <= Len(t) /\ s = SubSeq(t, 1, Len(s))

C21_SummaryCounts ==
    summary_file =>
        summary.successfully_processed + summary.errors = summary.total_professors

====
